---------------------------- MODULE Spec2Model ----------------------------
(***************************************************************************)
(* Model of the crawl engine of web-scraper-selenium (src/scraper.py):     *)
(* initialize_driver, scrape_website and crawl_website, one invocation at  *)
(* a time.                                                                 *)
(*                                                                         *)
(* A URL is the sequence of its lexemes: "http", ":", "/", "/", "a", "/",  *)
(* "p", "#", "f" is http://a/p#f.  Every "/", ":" and "#" character of the *)
(* string is a lexeme of its own, so str.rstrip('/') and str.split('#')    *)
(* act on the sequence exactly as they act on the string.                  *)
(***************************************************************************)
EXTENDS Integers, Sequences, FiniteSets, TLC

(***************************************************************************)
(* Bounds of the model.                                                    *)
(***************************************************************************)
\* the largest max_pages a crawl is called with
MaxPagesBound == 3
\* the largest max_pages of two crawls run at the same time
ConcMaxPages == 2
\* the number of storage requests made in a run
MaxRequests == 3

(***************************************************************************)
(* String and URL functions used by the crawler.                           *)
(***************************************************************************)
RECURSIVE rstrip_slash(_)
\* str.rstrip('/'): drop every trailing "/"
rstrip_slash(s) ==
    IF s # <<>> /\ s[Len(s)] = "/"
    THEN rstrip_slash(SubSeq(s, 1, Len(s) - 1))
    ELSE s

RECURSIVE TakeUntil(_, _)
\* the longest prefix of s holding no lexeme of D
TakeUntil(s, D) ==
    IF s = <<>> \/ s[1] \in D THEN <<>>
    ELSE <<s[1]>> \o TakeUntil(Tail(s), D)

\* s.split('#')[0]: what precedes the first "#"
split_hash_0(s) == TakeUntil(s, {"#"})

\* urlsplit finds a scheme: the lexeme before the first ":"
HasScheme(u) == Len(u) >= 2 /\ u[2] = ":" /\ u[1] \notin {"/", "#", "?", ":"}

\* what follows "scheme:"
AfterScheme(u) == IF HasScheme(u) THEN SubSeq(u, 3, Len(u)) ELSE u

\* the rest starts with "//": a network location follows
HasNetloc(r) == Len(r) >= 2 /\ r[1] = "/" /\ r[2] = "/"

\* urlparse(u): scheme and netloc, and whether urlsplit raises ValueError
\* ("Invalid IPv6 URL": a "[" in the netloc without its "]")
urlparse(u) ==
    LET r   == AfterScheme(u)
        loc == IF HasNetloc(r)
               THEN TakeUntil(SubSeq(r, 3, Len(r)), {"/", "#", "?"})
               ELSE <<>>
        rng == {loc[i] : i \in DOMAIN loc}
    IN [scheme |-> IF HasScheme(u) THEN u[1] ELSE "",
        netloc |-> loc,
        raises |-> ("[" \in rng) # ("]" \in rng)]

\* the path of an absolute URL: after the netloc, up to "?" or "#"
PathOf(u) ==
    LET r   == AfterScheme(u)
        loc == urlparse(u).netloc
    IN IF HasNetloc(r)
       THEN TakeUntil(SubSeq(r, 3 + Len(loc), Len(r)), {"#", "?"})
       ELSE TakeUntil(r, {"#", "?"})

RECURSIVE BaseDir(_)
\* the base path without its last segment (urljoin: del base_parts[-1])
BaseDir(p) ==
    IF p = <<>> THEN <<"/">>
    ELSE IF p[Len(p)] = "/" THEN p
    ELSE BaseDir(SubSeq(p, 1, Len(p) - 1))

\* urljoin(base, url) where it does not raise: an empty url gives base, a
\* url with a scheme is kept, "/x" replaces the path, "#f" replaces the
\* fragment, "x" replaces the last path segment
urljoin(base, url) ==
    LET b      == urlparse(base)
        origin == <<b.scheme, ":", "/", "/">> \o b.netloc
    IN IF url = <<>> THEN base
       ELSE IF HasScheme(url) THEN url
       ELSE IF url[1] = "/" THEN origin \o url
       ELSE IF url[1] = "#" THEN split_hash_0(base) \o url
       ELSE origin \o BaseDir(PathOf(base)) \o url

\* urljoin(base, url) raises ValueError: it parses url first
urljoin_raises(url) == urlparse(url).raises

(***************************************************************************)
(* The web the crawler runs against: URLs, hrefs and pages.                *)
(***************************************************************************)
HttpA  == <<"http", ":", "/", "/", "a">>
UrlA   == HttpA
UrlAS  == HttpA \o <<"/">>
UrlAF  == HttpA \o <<"/", "#", "f">>
UrlP   == HttpA \o <<"/", "p">>
UrlPS  == HttpA \o <<"/", "p", "/">>
UrlPF  == HttpA \o <<"/", "p", "#", "f">>
UrlQ   == HttpA \o <<"/", "q">>
UrlQF  == HttpA \o <<"/", "q", "#", "g">>
UrlPs  == <<"https", ":", "/", "/", "a", "/", "p">>
UrlExt == <<"http", ":", "/", "/", "b", "/", "x">>
UrlSub == <<"http", ":", "/", "/", "w", ".", "a", "/", "x">>
UrlMail == <<"mailto", ":", "x">>
UrlBad == <<"http", ":", "/", "/", "[", "bad">>
RelQ   == <<"/", "q">>
RelX   == <<"x">>

\* an element without heading: sec.find([...]) returned None
NoHeading == [tag |-> "none", text |-> ""]

\* one block container of a page (section/div/article/main, or the body):
\* its first heading, the texts of its p/li/span, the src of its img and
\* the href of its a elements
Container(h, texts, srcs, hrefs) ==
    [heading |-> h, texts |-> texts, srcs |-> srcs, hrefs |-> hrefs]

\* a rendered page: its block containers, what the body holds outside
\* them, and whether its markup already has prettify()'s layout
Page(containers, loose) ==
    [containers |-> containers, loose |-> loose, pretty |-> FALSE]

PageLeaf == Page(<<>>, Container([tag |-> "h1", text |-> "Hi"], <<"World">>, <<>>, <<>>))
PageAB   == Page(<<Container(NoHeading, <<>>, <<>>, <<UrlPS, UrlExt>>),
                   Container(NoHeading, <<"">>, <<>>, <<>>)>>,
                 Container(NoHeading, <<>>, <<>>, <<>>))
PageBack == Page(<<Container(NoHeading, <<"t">>, <<>>, <<UrlAS, UrlP, UrlSub>>)>>,
                 Container(NoHeading, <<>>, <<>>, <<UrlBad, RelQ>>))
PageRel  == Page(<<Container(NoHeading, <<>>, <<RelQ, RelX>>, <<UrlQF, UrlMail, UrlPs>>)>>,
                 Container(NoHeading, <<>>, <<>>, <<>>))
PageBad  == Page(<<Container(NoHeading, <<>>, <<>>, <<UrlBad, UrlQ>>)>>,
                 Container(NoHeading, <<>>, <<>>, <<>>))
\* the page served for a path the site does not have
PageNotFound == Page(<<>>, Container(NoHeading, <<>>, <<>>, <<>>))

PageTemplates == {PageLeaf, PageAB, PageBack, PageRel, PageBad}

\* the paths the site serves
PageKeys == {UrlA, UrlP, UrlQ}
Sites == [PageKeys -> PageTemplates]

\* the URLs a call is made with
SeedUrls == {UrlAS, UrlP, UrlPF, UrlPS}
\* the type argument: "raw", "beautify", and a misspelt mode
Types == {"raw", "beautify", "beautfy"}

\* the page the server answers a request for u with: the fragment is not
\* sent, and the path is served with or without its trailing slash
ServerKey(u) == rstrip_slash(split_hash_0(u))
PageOf(s, u) == IF ServerKey(u) \in DOMAIN s THEN s[ServerKey(u)] ELSE PageNotFound

(***************************************************************************)
(* Section extraction (beautify).                                          *)
(***************************************************************************)
NonEmpty(x) == x # <<>>

\* the containers sections are made from: the block containers, or the
\* body (or the whole document) when there is none
main_sections(page) ==
    IF page.containers # <<>> THEN page.containers ELSE <<page.loose>>

\* section_data of one container
section_data(base, sec) ==
    LET srcs  == SelectSeq(sec.srcs, NonEmpty)
        hrefs == SelectSeq(sec.hrefs, NonEmpty)
    IN [heading |-> sec.heading,
        content |-> SelectSeq(sec.texts, LAMBDA t : t # ""),
        images  |-> [i \in DOMAIN srcs |-> urljoin(base, srcs[i])],
        links   |-> [i \in DOMAIN hrefs |-> urljoin(base, split_hash_0(hrefs[i]))]]

\* building section_data of the container raises (urljoin's ValueError)
section_raises(sec) ==
    \/ \E i \in DOMAIN sec.srcs : sec.srcs[i] # <<>> /\ urljoin_raises(sec.srcs[i])
    \/ \E i \in DOMAIN sec.hrefs :
          sec.hrefs[i] # <<>> /\ urljoin_raises(split_hash_0(sec.hrefs[i]))

\* the section filter left out: every container gives a section
has_data_always(sd) == TRUE

\* "only include sections with data"
HasData(sd) ==
    sd.heading # NoHeading \/ sd.content # <<>> \/ sd.images # <<>> \/ sd.links # <<>>

\* content_sections of a page rendered from base
content_sections(base, page) ==
    LET secs == main_sections(page)
        all  == [i \in DOMAIN secs |-> section_data(base, secs[i])]
    IN SelectSeq(all, HasData)

\* section extraction of the page raises
sections_raise(page) ==
    \E i \in DOMAIN main_sections(page) : section_raises(main_sections(page)[i])

\* soup.prettify(): the markup re-serialised in prettify's layout
prettify(page) == [page EXCEPT !.pretty = TRUE]

(***************************************************************************)
(* Link discovery of crawl_website.                                        *)
(***************************************************************************)
Range(q) == {q[i] : i \in DOMAIN q}

RECURSIVE Flatten(_)
Flatten(ss) == IF ss = <<>> THEN <<>> ELSE Head(ss) \o Flatten(Tail(ss))

\* elem.get_attribute('href'): the browser resolves the attribute against
\* the document's URL; an href it cannot parse is returned as written, and
\* an a element without href gives None (here the empty sequence)
get_attribute_href(doc, href) ==
    IF href = <<>> \/ urlparse(href).raises THEN href ELSE urljoin(doc, href)

\* links_on_page: the href of every a element of the document, in order
links_on_page(doc, page) ==
    LET hrefs == Flatten([i \in DOMAIN page.containers |-> page.containers[i].hrefs])
                    \o page.loose.hrefs
    IN [i \in DOMAIN hrefs |-> get_attribute_href(doc, hrefs[i])]

\* to_visit = [base_url.rstrip('/')]
seed_key(url) == rstrip_slash(url)

\* domain = urlparse(base_url).netloc
domain_of(url) == urlparse(url).netloc

\* in_scope with the host matched as a suffix: subdomains are followed
in_scope_subdomains(parsed_absolute, dom) ==
    /\ parsed_absolute.scheme \in {"http", "https"}
    /\ Len(parsed_absolute.netloc) >= Len(dom)
    /\ SubSeq(parsed_absolute.netloc,
              Len(parsed_absolute.netloc) - Len(dom) + 1,
              Len(parsed_absolute.netloc)) = dom

\* "the link is within the same domain and is http/https"
in_scope(parsed_absolute, dom) ==
    parsed_absolute.scheme \in {"http", "https"} /\ parsed_absolute.netloc = dom

\* clean_link = absolute_link.split('#')[0].rstrip('/')
clean_link(absolute_link) == rstrip_slash(split_hash_0(absolute_link))

\* offer without the "not in to_visit" half of the test
offer_unless_visited(link, cur, dom, vis, q) ==
    IF link = <<>> THEN q
    ELSE IF urlparse(link).raises THEN q
    ELSE LET absolute_link   == urljoin(cur, link)
             parsed_absolute == urlparse(absolute_link)
             clean           == clean_link(absolute_link)
         IN IF in_scope(parsed_absolute, dom) /\ clean \notin vis
            THEN Append(q, clean)
            ELSE q

\* one pass of the "for link in links_on_page" body: the queue after it
offer(link, cur, dom, vis, q) ==
    IF link = <<>> THEN q
    ELSE IF urlparse(link).raises THEN q
    ELSE LET absolute_link   == urljoin(cur, link)
             parsed_absolute == urlparse(absolute_link)
             clean           == clean_link(absolute_link)
         IN IF in_scope(parsed_absolute, dom) /\ clean \notin vis /\ clean \notin Range(q)
            THEN Append(q, clean)
            ELSE q

RECURSIVE offer_all(_, _, _, _, _)
\* the whole "for link in links_on_page" loop
offer_all(links, cur, dom, vis, q) ==
    IF links = <<>> THEN q
    ELSE offer_all(Tail(links), cur, dom, vis, offer(Head(links), cur, dom, vis, q))

(***************************************************************************)
(* Records and results.                                                    *)
(***************************************************************************)
\* result_data of a page
result_data(cur, ty, page) ==
    IF ty = "raw" THEN prettify(page)
    ELSE [sections |-> content_sections(cur, page)]

\* page_data with the content branch taken for "beautify" only
page_data_beautify_only(cur, ty, rd) ==
    IF ty = "raw" THEN [url |-> cur, raw_data |-> rd]
    ELSE IF ty = "beautify" THEN [url |-> cur, content |-> rd.sections]
    ELSE [url |-> cur]

\* page_data = {"url": current_url} plus its payload
page_data(cur, ty, rd) ==
    IF ty = "raw" THEN [url |-> cur, raw_data |-> rd]
    ELSE [url |-> cur, content |-> rd.sections]

\* the per-page handler: all_data.append({"url": current_url, "error": ...})
on_page_error(data, cur) ==
    Append(data, [url |-> cur, error |-> [msg |-> "Error processing", url |-> cur]])

\* to_visit.pop(): the last element, a depth-first crawl
pop_index_last(q) == Len(q)

\* to_visit.pop(0): the index popped
pop_index(q) == 1

\* to_visit after the pop
pop_rest(q) == SubSeq(q, 1, pop_index(q) - 1) \o SubSeq(q, pop_index(q) + 1, Len(q))

\* the outer handler keeping the pages collected
crawl_error_with_data(url, data) ==
    [status |-> "error", error |-> [msg |-> "Crawl failed for", url |-> url],
     data |-> data]

\* the dict crawl_website's outer handler returns
crawl_error(url, data) ==
    [status |-> "error", error |-> [msg |-> "Crawl failed for", url |-> url]]

\* the return treating a page's error record as a failure of the crawl
crawl_success_unless_page_error(url, ty, data) ==
    IF \E i \in DOMAIN data : "error" \in DOMAIN data[i]
    THEN crawl_error(url, data)
    ELSE [status |-> "success", url |-> url, type |-> <<"crawl", ty>>, data |-> data]

\* the dict crawl_website returns after the loop
crawl_success(url, ty, data) ==
    [status |-> "success", url |-> url, type |-> <<"crawl", ty>>, data |-> data]

\* the dicts scrape_website returns
scrape_success(url, ty, page) ==
    IF ty = "raw"
    THEN [status |-> "success", url |-> url, type |-> "raw", data |-> page]
    ELSE [status |-> "success", url |-> url, type |-> "beautify",
          data |-> [sections |-> content_sections(url, page)]]

scrape_error(url) ==
    [status |-> "error", error |-> [msg |-> "Error scraping", url |-> url]]

\* no value returned yet
NoResult == [status |-> "none"]

(***************************************************************************)
(* State.                                                                  *)
(***************************************************************************)
VARIABLES
    call,             \* "crawl" or "scrape": the function invoked
    base_url,         \* its url argument
    type,             \* its type argument
    max_pages,        \* crawl_website's max_pages
    site,             \* the pages the web serves
    url_field,        \* the request's url: "given", "empty" or "missing"
    response,         \* the HTTP status answered, 0 before
    pc,               \* "request", "rejected", "start", "loop", "scrape",
                      \* "finally", "done"
    driver,           \* "none", "open" or "closed": the driver variable
    visited,          \* crawl_website's visited
    to_visit,         \* crawl_website's to_visit
    all_data,         \* crawl_website's all_data
    pages_processed,  \* crawl_website's pages_processed
    current_url,      \* the URL popped last
    result,           \* the value returned
    failed_at,        \* where the last page processed failed, or "none"
    raised,           \* the step at which the renderer or parser raised
                      \* while the last page was processed, or "none"
    enq_log,          \* every URL put in to_visit, in the order put
    session_log,      \* the driver events: "open", <<"get", url>>, "quit"
    files,            \* the codes with a file in SCRAPED_DATA_DIR
    live,             \* the codes store returned, not deleted since
    issued,           \* the codes uuid4 has given
    req,              \* the storage request each client is in
    nreq,             \* the storage requests started
    crawls,           \* the locals of each concurrent crawl_website call
    sessions          \* the browsers initialize_driver has started

vars == <<call, base_url, type, max_pages, site, url_field, response, pc, driver,
          visited, to_visit, all_data, pages_processed, current_url, result,
          failed_at, raised, enq_log, session_log, files, live, issued, req, nreq,
          crawls, sessions>>

conc_vars == <<crawls, sessions>>

\* the requests served at the same time
Procs == {1, 2}

\* no concurrent crawl was called
ConcIdle == crawls = [p \in Procs |-> [pc |-> "idle"]] /\ sessions = <<>>

store_vars == <<files, live, issued, req, nreq>>

crawl_vars == <<call, base_url, type, max_pages, site, url_field, response, pc,
                driver, visited, to_visit, all_data, pages_processed, current_url,
                result, failed_at, raised, enq_log, session_log>>

\* the unique codes of stored data, and the clients of the storage API
Codes == {"c1", "c2"}
Clients == {1, 2}

\* a client with no request in progress
Idle == [op |-> "none", code |-> "", at |-> "idle", resp |-> 0]

\* no storage request was made
StoreInit ==
    /\ files = {} /\ live = {} /\ issued = {}
    /\ req = [c \in Clients |-> Idle]
    /\ nreq = 0

inputs == <<call, base_url, type, max_pages, site, url_field>>

\* request.get_json().get('url') when the field is missing or empty
NoUrl == <<>>

\* the steps of processing one page at which an exception can be raised
CrawlFailPoints == {"none", "nav", "parse", "extract", "links"}
ScrapeFailPoints == {"none", "nav", "parse", "extract"}

Init ==
    /\ call \in {"crawl", "scrape"}
    /\ url_field \in {"given", "empty", "missing"}
    /\ base_url \in IF url_field = "given" THEN SeedUrls ELSE {NoUrl}
    /\ response = 0
    /\ type \in Types
    /\ max_pages \in 1..MaxPagesBound
    /\ call = "scrape" => max_pages = 1
    /\ site \in Sites
    /\ pc = "request"
    /\ driver = "none"
    /\ visited = {}
    /\ to_visit = <<seed_key(base_url)>>
    /\ all_data = <<>>
    /\ pages_processed = 0
    /\ current_url = <<>>
    /\ result = NoResult
    /\ failed_at = "none"
    /\ raised = "none"
    /\ enq_log = <<seed_key(base_url)>>
    /\ session_log = <<>>
    /\ StoreInit
    /\ ConcIdle

(***************************************************************************)
(* Operations.                                                             *)
(***************************************************************************)
Event(e, u) == [ev |-> e, url |-> u]

\* the quit at the end of the try block instead of in a finally clause
quits_on_success_only(d) == d = "open" /\ result.status = "success"

\* "if driver:" of the finally clauses
finally_quits(d) == d = "open"

\* the test of the mode left out: links are collected in every mode
discovers_links_always(ty) == TRUE

\* "if type == 'beautify'": links are collected for crawling
discovers_links(ty) == ty = "beautify"

\* visited.add(current_url) moved to the end of the try block: a page that
\* fails is not marked
visited_unless_failed(vis, cur, at) == IF at = "none" THEN vis \cup {cur} ELSE vis

\* visited.add(current_url), before the try: the same wherever the page
\* fails afterwards
visited_after(vis, cur, at) == vis \cup {cur}

\* pages_processed += 1 moved to the end of the try block: a page that
\* fails is not counted
pages_after_success(n, at) == IF at = "none" THEN n + 1 ELSE n

\* pages_processed += 1, before the try: a page that fails counts too
pages_after(n, at) == n + 1

\* the test "if url is None": an empty url passes
url_rejected_if_missing(field) == field = "missing"

\* "if not url" of the /scrape and /crawl handlers
url_rejected(field) == field \in {"empty", "missing"}

\* the status the handlers answer a result with
status_code(res) == IF res.status = "success" THEN 200 ELSE 500

\* where processing the page fails, given the step f at which the
\* environment raises: section extraction also raises by itself on a
\* reference urljoin rejects, and a step that is not run cannot raise
failure_point(f, ty, page) ==
    IF f \in {"nav", "parse"} THEN f
    ELSE IF ty # "raw" /\ (f = "extract" \/ sections_raise(page)) THEN "extract"
    ELSE IF discovers_links(ty) /\ f = "links" THEN "links"
    ELSE "none"

\* the step at which the environment's exception is what fails the page
raised_step(f, at) == IF f = at THEN f ELSE "none"

\* the /scrape and /crawl handlers up to the call: a request without url
\* is answered 400
HandleRequest ==
    /\ pc = "request"
    /\ IF url_rejected(url_field)
       THEN response' = 400 /\ pc' = "rejected"
       ELSE response' = response /\ pc' = "start"
    /\ UNCHANGED <<conc_vars, store_vars, inputs, driver, visited, to_visit, all_data, pages_processed,
                   current_url, result, failed_at, raised, enq_log, session_log>>

\* driver = initialize_driver(): it returns a driver or raises RuntimeError,
\* which the caller's outer handler turns into the error result
InitializeDriver ==
    /\ pc = "start"
    /\ \E ok \in BOOLEAN :
         IF ok
         THEN /\ driver' = "open"
              /\ session_log' = Append(session_log, Event("open", <<>>))
              /\ pc' = IF call = "crawl" THEN "loop" ELSE "scrape"
              /\ result' = result
         ELSE /\ driver' = driver
              /\ session_log' = session_log
              /\ pc' = "finally"
              /\ result' = IF call = "crawl"
                           THEN crawl_error(base_url, all_data)
                           ELSE scrape_error(base_url)
    /\ UNCHANGED <<conc_vars, store_vars, inputs, response, visited, to_visit, all_data, pages_processed,
                   current_url, failed_at, raised, enq_log>>

\* one iteration of "while to_visit and pages_processed < max_pages"
CrawlStep ==
    /\ pc = "loop"
    /\ to_visit # <<>> /\ pages_processed < max_pages
    /\ LET cur  == to_visit[pop_index(to_visit)]
           rest == pop_rest(to_visit)
       IN IF cur \in visited
          THEN /\ to_visit' = rest
               /\ current_url' = cur
               /\ UNCHANGED <<visited, all_data, pages_processed, failed_at,
                              raised, enq_log, session_log>>
          ELSE \E f \in CrawlFailPoints :
               LET page  == PageOf(site, cur)
                   at    == failure_point(f, type, page)
                   vis   == visited_after(visited, cur, at)
                   data1 == IF at \in {"nav", "parse", "extract"}
                            THEN all_data
                            ELSE Append(all_data,
                                        page_data(cur, type, result_data(cur, type, page)))
                   data2 == IF at # "none" THEN on_page_error(data1, cur) ELSE data1
                   queue == IF at = "none" /\ discovers_links(type)
                            THEN offer_all(links_on_page(cur, page), cur,
                                           domain_of(base_url), vis, rest)
                            ELSE rest
               IN /\ current_url' = cur
                  /\ visited' = vis
                  /\ pages_processed' = pages_after(pages_processed, at)
                  /\ session_log' = Append(session_log, Event("get", cur))
                  /\ all_data' = data2
                  /\ to_visit' = queue
                  /\ enq_log' = enq_log \o SubSeq(queue, Len(rest) + 1, Len(queue))
                  /\ failed_at' = at
                  /\ raised' = raised_step(f, at)
    /\ UNCHANGED <<conc_vars, store_vars, inputs, response, pc, driver, result>>

\* the loop has ended: the success dict is returned
CrawlReturn ==
    /\ pc = "loop"
    /\ ~(to_visit # <<>> /\ pages_processed < max_pages)
    /\ result' = crawl_success(base_url, type, all_data)
    /\ pc' = "finally"
    /\ UNCHANGED <<conc_vars, store_vars, inputs, response, driver, visited, to_visit, all_data,
                   pages_processed, current_url, failed_at, raised, enq_log,
                   session_log>>

\* the body of scrape_website after the driver is there
ScrapeStep ==
    /\ pc = "scrape"
    /\ \E f \in ScrapeFailPoints :
         LET page == PageOf(site, base_url)
             at   == failure_point(f, type, page)
         IN /\ failed_at' = at
            /\ raised' = raised_step(f, at)
            /\ result' = IF at # "none" THEN scrape_error(base_url)
                         ELSE scrape_success(base_url, type, page)
    /\ session_log' = Append(session_log, Event("get", base_url))
    /\ current_url' = base_url
    /\ pc' = "finally"
    /\ UNCHANGED <<conc_vars, store_vars, inputs, response, driver, visited, to_visit, all_data,
                   pages_processed, enq_log>>

\* the finally clause, the return to the handler and its answer
Finally ==
    /\ pc = "finally"
    /\ IF finally_quits(driver)
       THEN /\ driver' = "closed"
            /\ session_log' = Append(session_log, Event("quit", <<>>))
       ELSE UNCHANGED <<driver, session_log>>
    /\ pc' = "done"
    /\ response' = status_code(result)
    /\ UNCHANGED <<conc_vars, store_vars, inputs, visited, to_visit, all_data, pages_processed,
                   current_url, result, failed_at, raised, enq_log>>

Next == HandleRequest \/ InitializeDriver \/ CrawlStep \/ CrawlReturn \/ ScrapeStep \/ Finally

Spec == Init /\ [][Next]_vars

\* "while to_visit and pages_processed < max_pages" holds at the loop head
LoopCondition == pc = "loop" /\ to_visit # <<>> /\ pages_processed < max_pages

\* the thread serving the request keeps running, and every call it makes
\* to the browser returns or raises: weak fairness of every step. For the
\* two steps that process a page the condition under which the step is
\* enabled is written out: it is the loop condition for CrawlStep, which
\* changes to_visit or pages_processed, and pc = "scrape" for ScrapeStep
Fairness ==
    /\ WF_vars(HandleRequest)
    /\ WF_vars(InitializeDriver)
    /\ WF_vars(CrawlReturn)
    /\ WF_vars(Finally)
    /\ ([]<>~LoopCondition \/ []<><<CrawlStep>>_vars)
    /\ ([]<>~(pc = "scrape") \/ []<><<ScrapeStep>>_vars)

FairSpec == Spec /\ Fairness

(***************************************************************************)
(* Properties.                                                             *)
(***************************************************************************)
Urls(data) == [i \in DOMAIN data |-> data[i].url]
IsError(rec) == "error" \in DOMAIN rec
ErrorsFor(data, u) == {i \in DOMAIN data : IsError(data[i]) /\ data[i].url = u}
Gets(log) == {i \in DOMAIN log : log[i].ev = "get"}
Returned == pc = "done" /\ call = "crawl" /\ result.status = "success"

\* C1: the data list a crawl returns has at most max_pages entries,
\* whichever pages fail and at whichever step
C1_BudgetRespected == Returned => Len(result.data) <= max_pages

\* C2: each URL is the url of at most one entry of the data list a crawl
\* returns
C2_NoDuplicateUrl ==
    Returned =>
        \A i, j \in DOMAIN result.data :
            i # j => result.data[i].url # result.data[j].url

\* C3: every URL link discovery puts in to_visit has scheme http or https
\* and exactly the host of base_url, so every record's URL has that host
C3_DomainScoping ==
    call = "crawl" =>
        /\ \A k \in 2..Len(enq_log) :
              /\ urlparse(enq_log[k]).scheme \in {"http", "https"}
              /\ urlparse(enq_log[k]).netloc = urlparse(base_url).netloc
        /\ \A i \in DOMAIN all_data :
              urlparse(all_data[i].url).netloc = urlparse(base_url).netloc

\* a page linking to another host, to a subdomain and to a same-host page
\* was processed and its same-host link enqueued
C3_Witness ==
    /\ call = "crawl" /\ type = "beautify" /\ pages_processed >= 1
    /\ failed_at = "none"
    /\ UrlSub \in Range(links_on_page(current_url, PageOf(site, current_url)))
    /\ Len(enq_log) >= 2

\* a step of the loop that processed a page whose processing failed
PageFailedStep ==
    pc = "loop" /\ pages_processed' # pages_processed /\ failed_at' # "none"

\* C4: a page whose processing fails, at whichever step, gets exactly one
\* record appended, the record {url, error} of that URL; it counts as one
\* page processed, nothing is raised out of the loop, and the loop goes on
\* with the rest of the queue
C4_PageErrorRecorded ==
    [][PageFailedStep =>
          /\ Len(all_data') = Len(all_data) + 1
          /\ \A i \in DOMAIN all_data : all_data'[i] = all_data[i]
          /\ DOMAIN all_data'[Len(all_data')] = {"url", "error"}
          /\ all_data'[Len(all_data')].url = current_url'
          /\ pages_processed' = pages_processed + 1
          /\ pc' = "loop" /\ result' = NoResult
          /\ to_visit' = Tail(to_visit)
      ]_vars

\* what the code keeps of C4: the failed page's {url, error} record is the
\* last one appended and the only error record added, every record added
\* is for that URL, the page counts once, and the loop goes on
C4_ErrorRecordIsLast ==
    [][PageFailedStep =>
          /\ Len(all_data') > Len(all_data)
          /\ \A i \in DOMAIN all_data : all_data'[i] = all_data[i]
          /\ DOMAIN all_data'[Len(all_data')] = {"url", "error"}
          /\ Cardinality(ErrorsFor(all_data', current_url'))
                = Cardinality(ErrorsFor(all_data, current_url')) + 1
          /\ \A i \in (DOMAIN all_data') \ (DOMAIN all_data) :
                all_data'[i].url = current_url'
          /\ pages_processed' = pages_processed + 1
          /\ pc' = "loop" /\ result' = NoResult
          /\ to_visit' = Tail(to_visit)
      ]_vars

\* C5: when initialize_driver fails the crawl renders nothing and returns
\* status "error" with a message and no data; no error result has data
C5_ErrorResultHasNoData ==
    call = "crawl" =>
        /\ result.status = "error" =>
              /\ "data" \notin DOMAIN result
              /\ "error" \in DOMAIN result
              /\ result.error.msg # ""
        /\ (pc \in {"finally", "done"} /\ driver = "none") =>
              /\ result.status = "error"
              /\ Gets(session_log) = {}
              /\ all_data = <<>>

\* the crawl returned after initialize_driver failed
C5_Witness ==
    call = "crawl" /\ pc = "done" /\ driver = "none" /\ result.status = "error"

\* C6: one session per call: nothing is rendered before it is opened or
\* after it is closed, it is opened at most once, every page of a crawl
\* goes through it, and when the call returns it has been closed exactly
\* once if it was opened
C6_SessionClosedOnce ==
    LET n == Len(session_log)
    IN /\ \A i \in 1..n : (session_log[i].ev = "open") <=> (i = 1)
       /\ \A i \in 1..n : session_log[i].ev = "quit" => i = n
       /\ (driver = "open") <=> (n >= 1 /\ session_log[n].ev # "quit")
       /\ call = "crawl" => Cardinality(Gets(session_log)) = pages_processed
       /\ pc = "done" =>
             /\ driver # "open"
             /\ n >= 1 => session_log[n].ev = "quit"
             /\ n = 0 => result.status = "error"

\* a crawl returned at its budget, after a page failed, the session closed
C6_Witness ==
    /\ call = "crawl" /\ pc = "done" /\ driver = "closed"
    /\ pages_processed = max_pages /\ max_pages >= 2 /\ to_visit # <<>>
    /\ \E i \in DOMAIN all_data : IsError(all_data[i])

\* C7: once the session was provisioned the crawl returns status
\* "success" with the records collected, also at the budget with URLs
\* still queued (which were never rendered) and with error records
C7_SuccessWithRecords ==
    (call = "crawl" /\ pc \in {"finally", "done"} /\ driver # "none") =>
        /\ result.status = "success"
        /\ result.data = all_data
        /\ \A i \in Gets(session_log) : session_log[i].url \notin Range(to_visit)

\* the budget was reached with URLs still queued, one page failed
C7_Witness ==
    /\ call = "crawl" /\ pc = "done" /\ driver = "closed"
    /\ pages_processed = max_pages /\ to_visit # <<>>
    /\ \E i \in DOMAIN all_data : IsError(all_data[i])
    /\ \E i \in DOMAIN all_data : ~IsError(all_data[i])

\* the place of a URL in the order of discovery
EnqPos(u) == CHOOSE k \in DOMAIN enq_log :
                 enq_log[k] = u /\ \A m \in 1..(k - 1) : enq_log[m] # u

\* C8: the records are in the order their URLs were enqueued, the seed's
\* first; a page A linking to same-domain B and to another domain gives
\* the records of A and B, in that order
C8_BreadthFirstOrder ==
    call = "crawl" =>
        /\ all_data # <<>> => all_data[1].url = seed_key(base_url)
        /\ \A i \in DOMAIN all_data : all_data[i].url \in Range(enq_log)
        /\ \A i, j \in DOMAIN all_data :
              i < j => EnqPos(all_data[i].url) <= EnqPos(all_data[j].url)
        /\ ( /\ pc = "done" /\ type = "beautify" /\ max_pages >= 2
             /\ result.status = "success"
             /\ base_url = UrlAS
             /\ site[UrlA] = PageAB /\ site[UrlP] = PageLeaf
             /\ \A i \in DOMAIN all_data : ~IsError(all_data[i]) )
           => Urls(result.data) = <<UrlA, UrlP>>

\* three pages were processed, the two children of the seed in their order
C8_Witness ==
    /\ call = "crawl" /\ pc = "done" /\ Len(all_data) >= 3
    /\ all_data[1].url # all_data[2].url /\ all_data[2].url # all_data[3].url
    /\ Len(enq_log) >= 3

\* two URLs differ only by a trailing slash or only by their fragment
DifferOnlyBySlashOrFragment(u, v) ==
    \/ split_hash_0(u) = split_hash_0(v)
    \/ u = v \o <<"/">>
    \/ v = u \o <<"/">>

\* C9: URLs that differ only by a trailing slash or only by the fragment
\* have one frontier key, as the seed and as a link: no two URLs put in
\* to_visit differ only so
C9_OneFrontierKey ==
    call = "crawl" =>
        \A i, j \in DOMAIN enq_log :
            i # j => ~DifferOnlyBySlashOrFragment(enq_log[i], enq_log[j])

\* C10: every entry of all_data has url and exactly one of raw_data (type
\* "raw" only), content (any other type only) and error
C10_RecordShape ==
    call = "crawl" =>
        \A i \in DOMAIN all_data :
            LET d == DOMAIN all_data[i]
            IN /\ "url" \in d
               /\ Cardinality(d \cap {"raw_data", "content", "error"}) = 1
               /\ d \subseteq {"url", "raw_data", "content", "error"}
               /\ "raw_data" \in d => type = "raw"
               /\ "content" \in d => type # "raw"

\* a crawl has a content record and an error record
C10_Witness ==
    /\ call = "crawl" /\ type # "raw"
    /\ \E i \in DOMAIN all_data : "content" \in DOMAIN all_data[i]
    /\ \E i \in DOMAIN all_data : IsError(all_data[i])

\* the sections of every page record of a crawl and of a scrape result
EmittedSections ==
    UNION ({Range(all_data[i].content) :
              i \in {k \in DOMAIN all_data : "content" \in DOMAIN all_data[k]}}
           \cup {IF call = "scrape" /\ result.status = "success" /\ type # "raw"
                 THEN Range(result.data.sections) ELSE {}})

\* C11: every section emitted by scrape_website or crawl_website has a
\* heading, or a text, or an image, or a link; a container with none of
\* them gives no section, the fallback container included
C11_SectionNonEmpty ==
    /\ \A sd \in EmittedSections :
          sd.heading # NoHeading \/ sd.content # <<>> \/ sd.images # <<>>
              \/ sd.links # <<>>
    /\ \A i \in DOMAIN all_data :
          ("content" \in DOMAIN all_data[i]
              /\ PageOf(site, all_data[i].url) = PageNotFound)
          => all_data[i].content = <<>>

\* a crawl recorded a page with sections and a page whose only container,
\* the fallback body, is empty
C11_Witness ==
    /\ call = "crawl" /\ type = "beautify"
    /\ \E i \in DOMAIN all_data :
          "content" \in DOMAIN all_data[i] /\ all_data[i].content # <<>>
    /\ \E i \in DOMAIN all_data :
          /\ "content" \in DOMAIN all_data[i] /\ all_data[i].content = <<>>
          /\ PageOf(site, all_data[i].url) = PageNotFound

\* C12: in raw mode the record of a page carries the markup the renderer
\* returned as page_source, unchanged, in scrape_website's result and in
\* every page record of crawl_website
C12_RawMarkupVerbatim ==
    type = "raw" =>
        /\ (call = "scrape" /\ result.status = "success")
              => result.data = PageOf(site, base_url)
        /\ call = "crawl" =>
              \A i \in DOMAIN all_data :
                  "raw_data" \in DOMAIN all_data[i]
                      => all_data[i].raw_data = PageOf(site, all_data[i].url)

\* what the code keeps of C12: scrape_website returns page_source
\* unchanged, and crawl_website's raw record is its prettify() rendering,
\* with no sections in either
C12_RawMarkupPrettified ==
    type = "raw" =>
        /\ (call = "scrape" /\ result.status = "success")
              => result.data = PageOf(site, base_url)
        /\ call = "crawl" =>
              \A i \in DOMAIN all_data :
                  /\ "content" \notin DOMAIN all_data[i]
                  /\ "raw_data" \in DOMAIN all_data[i]
                        => all_data[i].raw_data = prettify(PageOf(site, all_data[i].url))

RECURSIVE crawl_from(_, _)
\* all_data at the end of crawl_website's loop run with type ty from the
\* loop state st, no step of the renderer or the parser raising
crawl_from(ty, st) ==
    IF ~(st.q # <<>> /\ st.n < max_pages) THEN st.data
    ELSE LET cur  == st.q[pop_index(st.q)]
             rest == pop_rest(st.q)
         IN IF cur \in st.vis THEN crawl_from(ty, [st EXCEPT !.q = rest])
            ELSE LET page  == PageOf(site, cur)
                     at    == failure_point("none", ty, page)
                     vis   == visited_after(st.vis, cur, at)
                     data1 == IF at \in {"nav", "parse", "extract"}
                              THEN st.data
                              ELSE Append(st.data,
                                          page_data(cur, ty, result_data(cur, ty, page)))
                     data2 == IF at # "none" THEN on_page_error(data1, cur) ELSE data1
                     queue == IF at = "none" /\ discovers_links(ty)
                              THEN offer_all(links_on_page(cur, page), cur,
                                             domain_of(base_url), vis, rest)
                              ELSE rest
                 IN crawl_from(ty, [q |-> queue, vis |-> vis, n |-> st.n + 1,
                                    data |-> data2])

\* the data of crawl_website(base_url, ty, max_pages) on the site
crawl_data(ty) ==
    crawl_from(ty, [q |-> <<seed_key(base_url)>>, vis |-> {}, n |-> 0, data |-> <<>>])

\* every error record of the run is that of a page whose section
\* extraction raises by itself: the renderer and the parser raised nothing
\* that changed the outcome
EnvQuiet ==
    \A i \in DOMAIN all_data :
        IsError(all_data[i])
            => type # "raw" /\ sections_raise(PageOf(site, all_data[i].url))

\* crawl_data is what the crawl returns when nothing else raises
CrawlDataIsTheRun == (Returned /\ EnvQuiet) => result.data = crawl_data(type)

\* C13: a crawl with a type that is neither "raw" nor "beautify" returns
\* the page records of the beautify crawl of the same site with the same
\* max_pages
C13_TypoCrawlsAsBeautify ==
    (Returned /\ type \notin {"raw", "beautify"} /\ EnvQuiet)
        => result.data = crawl_data("beautify")

\* what the code keeps of C13: the misspelt type does not fail and the
\* seed's record is the beautify crawl's first record, but no link is
\* followed
C13_TypoCrawlsSeedOnly ==
    (Returned /\ type \notin {"raw", "beautify"} /\ EnvQuiet)
        => /\ Len(result.data) = 1
           /\ result.data[1] = crawl_data("beautify")[1]
           /\ Len(enq_log) = 1

\* what scrape_website(base_url, type) returns on the site when the
\* renderer and the parser raise nothing
scrape_result ==
    IF failure_point("none", type, PageOf(site, base_url)) # "none"
    THEN scrape_error(base_url)
    ELSE scrape_success(base_url, type, PageOf(site, base_url))

\* the page record rec carries the payload of the scrape result sc
SamePayload(rec, sc) ==
    IF IsError(rec) THEN sc.status = "error"
    ELSE /\ sc.status = "success"
         /\ type = "raw" => rec.raw_data = sc.data
         /\ type # "raw" => rec.content = sc.data.sections

\* a crawl of one page returned, nothing but the page's own references
\* having raised
OnePageCrawl == Returned /\ max_pages = 1 /\ EnvQuiet

\* C14: the single page record of crawl_website(url, type, max_pages=1)
\* carries the payload scrape_website(url, type) returns, in each mode
C14_ScrapeIsOnePageCrawl ==
    OnePageCrawl =>
        /\ Len(result.data) = 1
        /\ SamePayload(result.data[1], scrape_result)

\* C14 in beautify mode alone: the same ordered sections with the same
\* resolved image and link URLs
C14_SameSections ==
    (OnePageCrawl /\ type # "raw") =>
        /\ Len(result.data) = 1
        /\ SamePayload(result.data[1], scrape_result)

\* what the code keeps of C14: the sections are the same when the URL has
\* no trailing slash
C14_SameSectionsWithoutSlash ==
    (OnePageCrawl /\ type # "raw" /\ rstrip_slash(base_url) = base_url) =>
        /\ Len(result.data) = 1
        /\ SamePayload(result.data[1], scrape_result)

\* C15: a /scrape or /crawl request whose url is missing or empty is
\* answered with an error and neither opens a session nor renders a page
C15_NoUrlRejected ==
    url_field # "given" =>
        /\ pc \in {"request", "rejected"}
        /\ driver = "none" /\ session_log = <<>>
        /\ result = NoResult
        /\ pc = "rejected" => response = 400

\* requests with an empty url were answered
C15_Witness ==
    pc = "rejected" /\ url_field = "empty" /\ response = 400 /\ base_url = NoUrl

\* the sequence has no element twice
NoDup(seq) == \A i, j \in DOMAIN seq : seq[i] = seq[j] => i = j

\* the in-scope clean links the page at u offers to the queue
Offers(u) ==
    {clean_link(urljoin(u, l)) :
        l \in {m \in Range(links_on_page(u, PageOf(site, u))) :
                 /\ m # <<>>
                 /\ ~urlparse(m).raises
                 /\ in_scope(urlparse(urljoin(u, m)), domain_of(base_url))}}

\* C17: the queue holds no URL twice and none that is in visited; each URL
\* is enqueued at most once and rendered at most once, and every URL that
\* was popped was processed (the re-check after the pop skips none)
C17_EnqueuedOnce ==
    call = "crawl" =>
        /\ NoDup(to_visit)
        /\ Range(to_visit) \cap visited = {}
        /\ NoDup(enq_log)
        /\ \A i, j \in Gets(session_log) :
               session_log[i].url = session_log[j].url => i = j
        /\ Len(enq_log) = pages_processed + Len(to_visit)

\* a structural crawl in which two processed pages offered the same URL
\* and it is waiting in the queue, and a page linked to a processed one
C17_Witness ==
    /\ call = "crawl" /\ type = "beautify" /\ failed_at = "none"
    /\ \A i \in DOMAIN all_data : ~IsError(all_data[i])
    /\ \E v \in visited \ {current_url} :
          Offers(current_url) \cap Offers(v) \cap Range(to_visit) # {}
    /\ Offers(current_url) \cap (visited \ {current_url}) # {}

HasMalformed(u) ==
    \E l \in Range(links_on_page(u, PageOf(site, u))) : l # <<>> /\ urlparse(l).raises

\* C19: a malformed href or src never makes the page fail: a page of a
\* crawl fails only at a step where the driver or the parser raised
C19_MalformedNeverFails ==
    (call = "crawl" /\ failed_at # "none") => raised = failed_at

\* C19, link discovery alone: on a page whose sections were extracted, a
\* malformed candidate leaves no error record and the other links of the
\* page are offered
C19_MalformedLinkDropped ==
    (/\ call = "crawl" /\ type = "beautify" /\ pages_processed >= 1
     /\ failed_at = "none" /\ HasMalformed(current_url))
        => /\ ErrorsFor(all_data, current_url) = {}
           /\ Offers(current_url) \subseteq visited \cup Range(to_visit)

\* C20: a raw crawl discovers no links: nothing is enqueued after the
\* seed, only the seed is rendered, and a returned raw crawl has exactly
\* one record, whatever max_pages and the links of the seed page are
C20_RawCrawlsSeedOnly ==
    (call = "crawl" /\ type = "raw") =>
        /\ enq_log = <<seed_key(base_url)>>
        /\ \A i \in Gets(session_log) : session_log[i].url = seed_key(base_url)
        /\ pages_processed <= 1
        /\ Returned => Len(result.data) = 1

\* a raw crawl with a budget of several pages returned one record for a
\* seed page that has links into the domain
C20_Witness ==
    /\ Returned /\ type = "raw" /\ max_pages >= 2
    /\ Offers(seed_key(base_url)) \ {seed_key(base_url)} # {}
    /\ Len(result.data) = 1 /\ to_visit = <<>>

\* C22: the call ends; a crawl makes at most max_pages render calls, and
\* every iteration of its loop either takes a URL off the queue without
\* rendering or adds one to pages_processed
C22_Terminates ==
    /\ <>(pc \in {"rejected", "done"})
    /\ [](call = "crawl" => Cardinality(Gets(session_log)) <= max_pages)
    /\ [][(call = "crawl" /\ pc = "loop" /\ pc' = "loop") =>
            \/ /\ pages_processed' = pages_processed + 1
               /\ Cardinality(Gets(session_log')) = Cardinality(Gets(session_log)) + 1
            \/ /\ pages_processed' = pages_processed
               /\ session_log' = session_log
               /\ Len(to_visit') = Len(to_visit) - 1
         ]_vars

\* a crawl of pages that link to each other in a cycle has ended on its
\* budget, after a page failed, with URLs still waiting
C22_Witness ==
    /\ Returned /\ type = "beautify" /\ max_pages >= 2
    /\ pages_processed = max_pages /\ to_visit # <<>>
    /\ \E i \in DOMAIN all_data : IsError(all_data[i])
    /\ \E u \in visited : \E v \in Offers(u) \cap visited : u # v /\ u \in Offers(v)

RECURSIVE reach_from(_)
\* the pages reachable by in-scope links from the pages in R
reach_from(R) ==
    LET N == R \cup UNION {Offers(u) : u \in R}
    IN IF N = R THEN R ELSE reach_from(N)

\* the same-domain http/https pages reachable from the seed, a page named
\* by its URL without fragment and trailing slash
Reachable == reach_from({clean_link(base_url)})

\* the pages reachable from the seed as the crawl names it
ReachableFromKey == reach_from({seed_key(base_url)})

\* a beautify crawl has returned, no page failed
CleanRun ==
    /\ Returned /\ type = "beautify"
    /\ \A i \in DOMAIN result.data : ~IsError(result.data[i])

\* C23: a beautify crawl without failure, with no more reachable pages
\* than max_pages, ends with an empty queue and returns one record for
\* every reachable page and no other record (a record is that of the page
\* its URL names, fragment and trailing slash aside)
C23_ReachableAllCrawled ==
    (CleanRun /\ Cardinality(Reachable) <= max_pages) =>
        /\ to_visit = <<>>
        /\ {clean_link(u) : u \in Range(Urls(result.data))} = Reachable
        /\ Len(result.data) = Cardinality(Reachable)

\* C23 with the seed counted under the name the crawl gives it: the
\* records are those of the URLs reachable from the seed key
C23_ReachableKeysAllCrawled ==
    (CleanRun /\ Cardinality(ReachableFromKey) <= max_pages) =>
        /\ to_visit = <<>>
        /\ Range(Urls(result.data)) = ReachableFromKey
        /\ Len(result.data) = Cardinality(ReachableFromKey)

\* C23 for a seed without fragment
C23_CompleteWithoutFragment ==
    (CleanRun /\ Cardinality(Reachable) <= max_pages
              /\ seed_key(base_url) = clean_link(base_url)) =>
        /\ to_visit = <<>>
        /\ {clean_link(u) : u \in Range(Urls(result.data))} = Reachable
        /\ Len(result.data) = Cardinality(Reachable)

(***************************************************************************)
(* The storage endpoints of main.py, called by concurrent clients.         *)
(***************************************************************************)
\* no /scrape or /crawl request is in progress
NoCrawl ==
    /\ call = "crawl" /\ base_url = NoUrl /\ type = "beautify" /\ max_pages = 1
    /\ site = [k \in PageKeys |-> PageLeaf]
    /\ url_field = "missing" /\ response = 0 /\ pc = "idle"
    /\ driver = "none" /\ visited = {} /\ to_visit = <<>> /\ all_data = <<>>
    /\ pages_processed = 0 /\ current_url = <<>> /\ result = NoResult
    /\ failed_at = "none" /\ raised = "none" /\ enq_log = <<>>
    /\ session_log = <<>>

\* the client starts a request
Begin(c) == req[c].at \in {"idle", "done"} /\ nreq < MaxRequests

\* the client's request is answered
Answer(c, op, code, status) ==
    req' = [req EXCEPT ![c] = [op |-> op, code |-> code, at |-> "done", resp |-> status]]

\* store_agent_data: 400 without data; else a new uuid4 code, the file
\* written by save_scraped_content, and the code returned (500 on IOError)
StoreAgentData(c) ==
    /\ Begin(c)
    /\ nreq' = nreq + 1
    /\ \E has_data \in BOOLEAN, code \in Codes \ issued, saved \in BOOLEAN :
         IF ~has_data
         THEN /\ Answer(c, "store", "", 400)
              /\ UNCHANGED <<files, live, issued>>
         ELSE /\ issued' = issued \cup {code}
              /\ IF saved
                 THEN /\ files' = files \cup {code}
                      /\ live' = live \cup {code}
                      /\ Answer(c, "store", code, 200)
                 ELSE /\ Answer(c, "store", code, 500)
                      /\ UNCHANGED <<files, live>>
    /\ UNCHANGED <<crawl_vars, conc_vars>>

\* update_agent_data up to its os.path.exists test: 400 without data, 404
\* when the file does not exist
UpdateCheck(c) ==
    /\ Begin(c)
    /\ nreq' = nreq + 1
    /\ \E has_data \in BOOLEAN, code \in Codes :
         IF ~has_data THEN Answer(c, "update", code, 400)
         ELSE IF code \notin files THEN Answer(c, "update", code, 404)
         ELSE req' = [req EXCEPT ![c] = [op |-> "update", code |-> code,
                                         at |-> "write", resp |-> 0]]
    /\ UNCHANGED <<files, live, issued, crawl_vars, conc_vars>>

\* update_agent_data's save_scraped_content: open(file_path, 'w') writes
\* the file, creating it when it is not there
UpdateWrite(c) ==
    /\ req[c].at = "write"
    /\ \E saved \in BOOLEAN :
         IF saved
         THEN /\ files' = files \cup {req[c].code}
              /\ Answer(c, "update", req[c].code, 200)
         ELSE /\ files' = files
              /\ Answer(c, "update", req[c].code, 500)
    /\ UNCHANGED <<live, issued, nreq, crawl_vars, conc_vars>>

\* delete_agent_data up to its os.path.exists test: 404 when the file
\* does not exist
DeleteCheck(c) ==
    /\ Begin(c)
    /\ nreq' = nreq + 1
    /\ \E code \in Codes :
         IF code \notin files THEN Answer(c, "delete", code, 404)
         ELSE req' = [req EXCEPT ![c] = [op |-> "delete", code |-> code,
                                         at |-> "remove", resp |-> 0]]
    /\ UNCHANGED <<files, live, issued, crawl_vars, conc_vars>>

\* delete_agent_data's os.remove: OSError, answered 500, when the file is
\* gone
DeleteRemove(c) ==
    /\ req[c].at = "remove"
    /\ IF req[c].code \in files
       THEN /\ files' = files \ {req[c].code}
            /\ live' = live \ {req[c].code}
            /\ Answer(c, "delete", req[c].code, 200)
       ELSE /\ Answer(c, "delete", req[c].code, 500)
            /\ UNCHANGED <<files, live>>
    /\ UNCHANGED <<issued, nreq, crawl_vars, conc_vars>>

StoreNext ==
    \E c \in Clients :
        \/ StoreAgentData(c)
        \/ UpdateCheck(c)
        \/ UpdateWrite(c)
        \/ DeleteCheck(c)
        \/ DeleteRemove(c)

\* the storage API before its first request, no crawl in progress
StoreStart == NoCrawl /\ StoreInit /\ ConcIdle

StoreSpec == StoreStart /\ [][StoreNext]_vars

\* C16: update never creates an entry: under every interleaving of store,
\* update and delete requests the codes with a stored file are the codes
\* store returned and nobody deleted since
C16_UpdateNeverCreates == files = live

\* C16, the answer alone: a request answered 404 leaves the storage as it
\* was
C16_NotFoundLeavesStorage ==
    [][\A c \in Clients :
          (req'[c] # req[c] /\ req'[c].resp = 404) => files' = files]_vars

(***************************************************************************)
(* Two /crawl requests served at the same time: each thread runs           *)
(* crawl_website with its own locals; the browsers are the objects         *)
(* initialize_driver starts, and a step acts on the browser its driver     *)
(* local refers to.                                                        *)
(***************************************************************************)
ConcSeeds == {UrlAS, UrlP}
ConcTypes == {"raw", "beautify"}
\* the sites whose front page links to the other pages
ConcSites == {s \in [PageKeys -> {PageBack, PageBad}] :
                 s[UrlA] = PageBack /\ s[UrlQ] = PageBack}

\* the locals of crawl_website(b, ty, mp) at its first line; env is the
\* record of what the environment did to this call: whether the browser
\* started, and for every page processed the step that raised
Frame(b, ty, mp) ==
    [pc |-> "start", base_url |-> b, type |-> ty, max_pages |-> mp,
     driver |-> 0, visited |-> {}, to_visit |-> <<seed_key(b)>>,
     all_data |-> <<>>, pages_processed |-> 0, current_url |-> <<>>,
     result |-> NoResult, env |-> <<>>]

\* a browser just started: it shows no page; users and quitters are the
\* calls that navigated it and that quit it
NewSession == [state |-> "open", url |-> <<>>, users |-> {}, quitters |-> {}, quits |-> 0]

\* one module-level browser used by every call
shared_session(ss) == 1

\* webdriver.Chrome(...): the browser a call of initialize_driver returns
\* is a new one
new_session(ss) == Len(ss) + 1

ConcStart ==
    /\ call = "crawl" /\ base_url = NoUrl /\ type = "beautify" /\ max_pages = 1
    /\ site \in ConcSites
    /\ url_field = "missing" /\ response = 0 /\ pc = "idle"
    /\ driver = "none" /\ visited = {} /\ to_visit = <<>> /\ all_data = <<>>
    /\ pages_processed = 0 /\ current_url = <<>> /\ result = NoResult
    /\ failed_at = "none" /\ raised = "none" /\ enq_log = <<>>
    /\ session_log = <<>>
    /\ StoreInit
    /\ sessions = <<>>
    /\ crawls \in [Procs -> {Frame(b, ty, mp) :
                       b \in ConcSeeds, ty \in ConcTypes, mp \in {1, ConcMaxPages}}]

\* driver = initialize_driver() of call p
ConcInitializeDriver(p) ==
    /\ crawls[p].pc = "start"
    /\ \E ok \in BOOLEAN :
         IF ok
         THEN LET d == new_session(sessions)
              IN /\ sessions' = IF d > Len(sessions) THEN Append(sessions, NewSession)
                                ELSE [sessions EXCEPT ![d].state = "open"]
                 /\ crawls' = [crawls EXCEPT ![p].driver = d, ![p].pc = "loop",
                                             ![p].env = <<"open">>]
         ELSE /\ sessions' = sessions
              /\ crawls' = [crawls EXCEPT
                    ![p].result = crawl_error(crawls[p].base_url, crawls[p].all_data),
                    ![p].pc = "finally", ![p].env = <<"init">>]
    /\ UNCHANGED <<crawl_vars, store_vars>>

\* the head of an iteration of call p up to driver.get(current_url), which
\* raises when the network does or when the browser was quit
ConcGet(p) ==
    LET c    == crawls[p]
        cur  == c.to_visit[pop_index(c.to_visit)]
        rest == pop_rest(c.to_visit)
    IN /\ c.pc = "loop"
       /\ c.to_visit # <<>> /\ c.pages_processed < c.max_pages
       /\ IF cur \in c.visited
          THEN /\ crawls' = [crawls EXCEPT ![p].to_visit = rest, ![p].current_url = cur]
               /\ sessions' = sessions
          ELSE \E f \in {"none", "nav"} :
               LET vis  == visited_after(c.visited, cur, f)
                   c1   == [c EXCEPT !.to_visit = rest, !.current_url = cur,
                                     !.visited = vis,
                                     !.pages_processed = c.pages_processed + 1]
               IN IF f = "nav" \/ sessions[c.driver].state # "open"
                  THEN /\ crawls' = [crawls EXCEPT ![p] =
                             [c1 EXCEPT !.all_data = on_page_error(c.all_data, cur),
                                        !.env = Append(c.env, f)]]
                       /\ sessions' = sessions
                  ELSE /\ crawls' = [crawls EXCEPT ![p] = [c1 EXCEPT !.pc = "page"]]
                       /\ sessions' = [sessions EXCEPT
                             ![c.driver].url = cur,
                             ![c.driver].users = sessions[c.driver].users \cup {p}]
    /\ UNCHANGED <<crawl_vars, store_vars>>

\* the rest of the iteration of call p: driver.page_source and the a
\* elements are those of the page its browser shows
ConcProcess(p) ==
    LET c   == crawls[p]
        cur == c.current_url
        ses == sessions[c.driver]
    IN /\ c.pc = "page"
       /\ \E f \in {"none", "parse", "extract", "links"} :
            LET page  == PageOf(site, ses.url)
                at    == IF ses.state # "open" THEN "parse"
                         ELSE failure_point(f, c.type, page)
                data1 == IF at \in {"nav", "parse", "extract"}
                         THEN c.all_data
                         ELSE Append(c.all_data,
                                     page_data(cur, c.type, result_data(cur, c.type, page)))
                data2 == IF at # "none" THEN on_page_error(data1, cur) ELSE data1
                queue == IF at = "none" /\ discovers_links(c.type)
                         THEN offer_all(links_on_page(ses.url, page), cur,
                                        domain_of(c.base_url), c.visited, c.to_visit)
                         ELSE c.to_visit
            IN /\ f = "none" \/ failure_point(f, c.type, page) = f
               /\ crawls' = [crawls EXCEPT ![p] =
                     [c EXCEPT !.all_data = data2, !.to_visit = queue,
                               !.env = Append(c.env, f), !.pc = "loop"]]
       /\ UNCHANGED <<sessions, crawl_vars, store_vars>>

\* the loop of call p has ended: the success dict is returned
ConcReturn(p) ==
    /\ crawls[p].pc = "loop"
    /\ ~(crawls[p].to_visit # <<>> /\ crawls[p].pages_processed < crawls[p].max_pages)
    /\ crawls' = [crawls EXCEPT
          ![p].result = crawl_success(crawls[p].base_url, crawls[p].type,
                                      crawls[p].all_data),
          ![p].pc = "finally"]
    /\ UNCHANGED <<sessions, crawl_vars, store_vars>>

\* the finally clause of call p: "if driver: driver.quit()"
ConcFinally(p) ==
    /\ crawls[p].pc = "finally"
    /\ LET d == crawls[p].driver
       IN sessions' = IF d # 0
                      THEN [sessions EXCEPT ![d].state = "closed",
                                            ![d].quitters = sessions[d].quitters \cup {p},
                                            ![d].quits = sessions[d].quits + 1]
                      ELSE sessions
    /\ crawls' = [crawls EXCEPT ![p].pc = "done"]
    /\ UNCHANGED <<crawl_vars, store_vars>>

ConcNext ==
    \E p \in Procs :
        \/ ConcInitializeDriver(p)
        \/ ConcGet(p)
        \/ ConcProcess(p)
        \/ ConcReturn(p)
        \/ ConcFinally(p)

ConcSpec == ConcStart /\ [][ConcNext]_vars

RECURSIVE alone_from(_, _, _, _, _)
\* all_data at the end of the loop of crawl_website(b, ty, mp) run by
\* itself from the loop state st, env giving for each page processed the
\* step at which the environment raises
alone_from(b, ty, mp, env, st) ==
    IF ~(st.q # <<>> /\ st.n < mp) \/ env = <<>> THEN st.data
    ELSE LET cur  == st.q[pop_index(st.q)]
             rest == pop_rest(st.q)
         IN IF cur \in st.vis THEN alone_from(b, ty, mp, env, [st EXCEPT !.q = rest])
            ELSE LET page  == PageOf(site, cur)
                     at    == failure_point(Head(env), ty, page)
                     vis   == visited_after(st.vis, cur, at)
                     data1 == IF at \in {"nav", "parse", "extract"}
                              THEN st.data
                              ELSE Append(st.data,
                                          page_data(cur, ty, result_data(cur, ty, page)))
                     data2 == IF at # "none" THEN on_page_error(data1, cur) ELSE data1
                     queue == IF at = "none" /\ discovers_links(ty)
                              THEN offer_all(links_on_page(cur, page), cur,
                                             domain_of(b), vis, rest)
                              ELSE rest
                 IN alone_from(b, ty, mp, Tail(env),
                               [q |-> queue, vis |-> vis, n |-> st.n + 1, data |-> data2])

\* what crawl_website(b, ty, mp) returns when it is the only call running
\* and the environment does env
crawl_alone(b, ty, mp, env) ==
    IF Head(env) = "init" THEN crawl_error(b, <<>>)
    ELSE crawl_success(b, ty,
            alone_from(b, ty, mp, Tail(env),
                       [q |-> <<seed_key(b)>>, vis |-> {}, n |-> 0, data |-> <<>>]))

\* C21: two crawls run at the same time keep to their own browser, which
\* nobody else navigates or quits and which is quit once; each returns
\* what it returns run by itself on the same site
C21_CrawlsIndependent ==
    \A p \in Procs :
        LET c == crawls[p]
        IN c.pc \notin {"idle", "start"} =>
            /\ \A q \in Procs \ {p} :
                  (c.driver # 0 /\ crawls[q].pc \notin {"idle", "start"})
                      => crawls[q].driver # c.driver
            /\ c.driver # 0 =>
                  /\ sessions[c.driver].users \subseteq {p}
                  /\ sessions[c.driver].quitters \subseteq {p}
                  /\ sessions[c.driver].quits <= 1
                  /\ c.pc = "done" <=> sessions[c.driver].state = "closed"
            /\ c.pc = "done" =>
                  c.result = crawl_alone(c.base_url, c.type, c.max_pages, c.env)

\* one call has returned two page records and quit its browser while the
\* other, crawling the same pages, is in the middle of a page
C21_Witness ==
    /\ crawls[1].pc = "done" /\ crawls[1].result.status = "success"
    /\ Len(crawls[1].result.data) = 2
    /\ sessions[crawls[1].driver].state = "closed"
    /\ crawls[2].pc = "page" /\ crawls[2].pages_processed = 2
    /\ sessions[crawls[2].driver].state = "open"
    /\ crawls[2].visited \cap crawls[1].visited # {}

====
